---- MODULE Spec2Model ----
(***************************************************************************)
(* Model of the two artifacts of the repository:                           *)
(*                                                                         *)
(*   * ai/notebooks/explore_data.ipynb: the "Outlier Detection" cell (the  *)
(*     IQR loop over numerical_cols) together with the cell that selects    *)
(*     numerical_cols;                                                      *)
(*   * workflows/deploy.yml: the job graph of the deployment pipeline and   *)
(*     the step conditions of every job.                                    *)
(*                                                                         *)
(* Numbers.  A pandas float is modelled as a sequence: <<>> is NaN (a      *)
(* missing value) and <<k>> is the number k/8.  A cell of the table holds   *)
(* <<v>> for the integer v (or <<>> when it is missing).  For integer data  *)
(* the quantiles at 0.25 and 0.75 are multiples of 1/4 and 1.5 * IQR is a   *)
(* multiple of 1/8, so every value the cell computes is an exact multiple   *)
(* of 1/8 and binary64 arithmetic on it is exact.                           *)
(***************************************************************************)
EXTENDS Integers, Sequences, FiniteSets, TLC

\* The notebook: the frame, the Python globals of the cells, the position in
\* the outlier cell, what the cell printed, and the exception it raised.
\* scans records the values the globals took in each pass of the loop of the
\* current run, and prev_run the output and the scans of the run before.
VARIABLES df, numerical_cols, pc, idx, col, Q1, Q3, IQR, lower_bound,
          upper_bound, outliers, stdout, error, scans, prev_run

\* A run of the deployment workflow: the triggering event, its inputs, and
\* each job's status with the outcomes of its steps so far.
VARIABLES event, inputs, jobs

wfvars == <<event, inputs, jobs>>

nbvars == <<df, numerical_cols, pc, idx, col, Q1, Q3, IQR, lower_bound,
            upper_bound, outliers, stdout, error, scans, prev_run>>

\* ------------------------------------------------------------ bounds
\* Largest number of rows of an enumerated table.
MaxRows == 5
\* Cells of an enumerated numeric column hold 0..MaxVal or are missing.
MaxVal == 2

\* ------------------------------------------------------------ floats
NaN == <<>>

isnull(x) == x = NaN

\* The integer cell value v as a float (in eighths).
AsFloat(c) == IF isnull(c) THEN NaN ELSE <<8 * c[1]>>

\* a - b, a + b in IEEE arithmetic: NaN propagates.
FSub(a, b) == IF isnull(a) \/ isnull(b) THEN NaN ELSE <<a[1] - b[1]>>

FAdd(a, b) == IF isnull(a) \/ isnull(b) THEN NaN ELSE <<a[1] + b[1]>>

\* 1.5 * x.  x is a difference of two quantiles, an even number of eighths.
FMulOneAndHalf(x) == IF isnull(x) THEN NaN ELSE <<(3 * x[1]) \div 2>>

\* a < b, a > b in IEEE arithmetic: every comparison with NaN is false.
FLess(a, b) == ~isnull(a) /\ ~isnull(b) /\ a[1] < b[1]

\* A variant of > that also holds of equal numbers.
FGreaterOrEqual(a, b) == ~isnull(a) /\ ~isnull(b) /\ a[1] >= b[1]

FGreater(a, b) == ~isnull(a) /\ ~isnull(b) /\ a[1] > b[1]

\* ------------------------------------------------------------ the table
\* A table is a sequence of columns [name, dtype, values]; the values of all
\* columns have the same length.  Row labels are the positions 0..n-1 of the
\* default RangeIndex.
ColumnNames(t) == {t[k].name : k \in 1..Len(t)}

\* df[name]: the column, or a KeyError marker when no column has that name.
GetColumn(t, name) ==
    IF name \in ColumnNames(t)
    THEN t[CHOOSE k \in 1..Len(t) : t[k].name = name]
    ELSE [name |-> name, dtype |-> "KeyError", values |-> <<>>]

\* df.select_dtypes(include=['int64', 'float64']).columns, in column order.
NumericDtypes == {"int64", "float64"}

RECURSIVE SelectDtypesFrom(_, _, _)
SelectDtypesFrom(t, include, k) ==
    IF k > Len(t) THEN <<>>
    ELSE (IF t[k].dtype \in include THEN <<t[k].name>> ELSE <<>>)
         \o SelectDtypesFrom(t, include, k + 1)

\* A variant that selects every column, whatever its dtype.
select_all_columns(t, include) == [k \in 1..Len(t) |-> t[k].name]

select_dtypes(t, include) == SelectDtypesFrom(t, include, 1)

\* ------------------------------------------------------------ quantile
\* Series.dropna(): the non-missing values, in order.
RECURSIVE dropna(_)
dropna(s) ==
    IF s = <<>> THEN <<>>
    ELSE (IF isnull(Head(s)) THEN <<>> ELSE <<Head(s)>>) \o dropna(Tail(s))

\* Insert cell c into the ascending sequence s.
RECURSIVE Insert(_, _)
Insert(c, s) ==
    IF s = <<>> THEN <<c>>
    ELSE IF c[1] <= Head(s)[1] THEN <<c>> \o s
    ELSE <<Head(s)>> \o Insert(c, Tail(s))

\* The non-missing values in ascending order.
RECURSIVE SortValues(_)
SortValues(s) == IF s = <<>> THEN <<>> ELSE Insert(Head(s), SortValues(Tail(s)))

\* A variant that takes the lower order statistic instead of interpolating.
LerpLower(s, q4) ==
    LET pos4 == q4 * (Len(s) - 1)
        lo   == pos4 \div 4
    IN  <<8 * s[lo + 1][1]>>

\* Linear interpolation at the virtual index q4/4 * (n-1) of the ascending
\* sequence s (n = Len(s) > 0): a + (b - a) * t, in eighths.
Lerp(s, q4) ==
    LET pos4 == q4 * (Len(s) - 1)
        lo   == pos4 \div 4
        r    == pos4 % 4
        hi   == IF r = 0 THEN lo ELSE lo + 1
        a    == s[lo + 1][1]
        b    == s[hi + 1][1]
    IN  <<2 * (4 * a + r * (b - a))>>

\* A variant that does not skip missing values (numpy.quantile on the raw
\* column): NaN as soon as one value is missing.
quantile_noskip(s, q4) ==
    IF \E k \in 1..Len(s) : isnull(s[k]) THEN NaN
    ELSE IF s = <<>> THEN NaN ELSE Lerp(SortValues(s), q4)

\* A variant that takes the quantile at 1 - q4/4: Q1 and Q3 change places.
quantile_swapped(s, q4) ==
    LET clean == dropna(s)
    IN  IF clean = <<>> THEN NaN ELSE Lerp(SortValues(clean), 4 - q4)

\* A variant that yields 0 instead of NaN when no value is present.
quantile_zero_when_empty(s, q4) ==
    LET clean == dropna(s)
    IN  IF clean = <<>> THEN <<0>> ELSE Lerp(SortValues(clean), q4)

\* Series.quantile(q4/4): missing values are skipped; NaN when nothing is left.
quantile(s, q4) ==
    LET clean == dropna(s)
    IN  IF clean = <<>> THEN NaN ELSE Lerp(SortValues(clean), q4)

\* ------------------------------------------------------------ the filter
\* A variant with non-strict comparisons.
OutlierMaskNonStrict(values, lo, hi) ==
    [k \in 1..Len(values) |->
        LET v == AsFloat(values[k])
        IN  ~isnull(v) /\ ~isnull(lo) /\ ~isnull(hi)
            /\ (v[1] <= lo[1] \/ v[1] >= hi[1])]

\* (df[col] < lower_bound) | (df[col] > upper_bound): one boolean per row.
OutlierMask(values, lo, hi) ==
    [k \in 1..Len(values) |->
        FLess(AsFloat(values[k]), lo) \/ FGreater(AsFloat(values[k]), hi)]

\* df[mask][col]: the rows whose mask is true, from row k on, in row order,
\* each with its row label and its value in the column.
RECURSIVE BoolIndexFrom(_, _, _)
BoolIndexFrom(values, mask, k) ==
    IF k > Len(values) THEN <<>>
    ELSE (IF mask[k] THEN <<[label |-> k - 1, value |-> values[k]]>> ELSE <<>>)
         \o BoolIndexFrom(values, mask, k + 1)

\* The same rows, last row first.
RECURSIVE BoolIndexReversedFrom(_, _, _)
BoolIndexReversedFrom(values, mask, k) ==
    IF k > Len(values) THEN <<>>
    ELSE BoolIndexReversedFrom(values, mask, k + 1)
         \o (IF mask[k] THEN <<[label |-> k - 1, value |-> values[k]]>> ELSE <<>>)

BoolIndexReversed(values, mask) == BoolIndexReversedFrom(values, mask, 1)

BoolIndex(values, mask) == BoolIndexFrom(values, mask, 1)

\* Series.head(): the first rows of a series (5 by default).
HeadRows == 5

head(s) == IF Len(s) <= HeadRows THEN s ELSE SubSeq(s, 1, HeadRows)

\* A variant in which the list of outliers is extended by every scan instead
\* of being assigned.
FilterOutliersAppended(values, lo, hi) ==
    outliers \o BoolIndexFrom(values, OutlierMask(values, lo, hi), 1)

\* outliers = df[(df[col] < lower_bound) | (df[col] > upper_bound)][col]
FilterOutliers(values, lo, hi) ==
    BoolIndex(values, OutlierMask(values, lo, hi))

\* ------------------------------------------------------------ the dataset
\* The cells an enumerated numeric column may hold.
Cells == {<<v>> : v \in 0..MaxVal} \cup {NaN}

\* The dtype a loaded column of numbers gets: int64 when nothing is missing,
\* float64 when a value is missing.  A column without rows is typed object by
\* read_csv, and float64 when the frame is built from an empty float array.
ColumnDtypes(values) ==
    IF Len(values) = 0 THEN {"object", "float64"}
    ELSE IF \E k \in 1..Len(values) : isnull(values[k]) THEN {"float64"}
    ELSE {"int64"}

\* A column of n strings (a categorical column such as the species of iris).
ObjectColumn(name, n) ==
    [name |-> name, dtype |-> "object", values |-> [k \in 1..n |-> <<"setosa">>]]

\* Columns of n zeros in which the last cell may hold MaxVal instead and the
\* first cell may be missing.
SpikeColumns(n) ==
    {[k \in 1..n |-> IF k = n /\ spike THEN <<MaxVal>>
                     ELSE IF k = 1 /\ missing THEN NaN
                     ELSE <<0>>] : spike \in BOOLEAN, missing \in BOOLEAN}

\* The tables the model loads, of up to MaxRows rows: a numeric column "x" of
\* any cells beside a categorical column "y", or two numeric columns "x" and
\* "y" of zeros with a spike.
EnumeratedTable(t) ==
    \E n \in 0..MaxRows :
      \/ \E xs \in [1..n -> Cells] :
           \E xd \in ColumnDtypes(xs) :
             t = <<[name |-> "x", dtype |-> xd, values |-> xs],
                   ObjectColumn("y", n)>>
      \/ \E xs \in SpikeColumns(n), ys \in SpikeColumns(n) :
           \E xd \in ColumnDtypes(xs), yd \in ColumnDtypes(ys) :
             t = <<[name |-> "x", dtype |-> xd, values |-> xs],
                   [name |-> "y", dtype |-> yd, values |-> ys]>>

\* The two columns of the documented scenarios, each beside a categorical column.
ScenarioSkewed == <<<<1>>, <<2>>, <<2>>, <<3>>, <<3>>, <<3>>, <<4>>, <<4>>, <<100>>>>

ScenarioConstant == <<<<5>>, <<5>>, <<5>>, <<5>>>>

ScenarioTable(t) ==
    \E xs \in {ScenarioSkewed, ScenarioConstant} :
      t = <<[name |-> "x", dtype |-> "int64", values |-> xs],
            ObjectColumn("y", Len(xs))>>

\* ------------------------------------------------------------ the notebook
\* A Python name that is not bound yet.
Unbound == "unbound"

NotebookInit ==
    /\ EnumeratedTable(df) \/ ScenarioTable(df)
    /\ numerical_cols = Unbound
    /\ pc = "loaded"
    /\ idx = 0
    /\ col = Unbound
    /\ Q1 = Unbound /\ Q3 = Unbound /\ IQR = Unbound
    /\ lower_bound = Unbound /\ upper_bound = Unbound
    /\ outliers = <<>>
    /\ stdout = <<>>
    /\ error = "none"
    /\ scans = <<>>
    /\ prev_run = <<>>

\* Cell 5: numerical_cols = df.select_dtypes(include=['int64', 'float64']).columns
SelectNumericalCols ==
    /\ pc = "loaded"
    /\ numerical_cols' = select_dtypes(df, NumericDtypes)
    /\ pc' = "selected"
    /\ UNCHANGED <<df, idx, col, Q1, Q3, IQR, lower_bound, upper_bound,
                   outliers, stdout, error, scans, prev_run>>
    /\ UNCHANGED wfvars

\* Cell 9 is run (again): "for col in numerical_cols" starts.  The output of
\* a run that completed before is kept for comparison.
BeginOutlierCell ==
    /\ pc \in {"selected", "done"}
    /\ pc' = "loop"
    /\ idx' = 1
    /\ stdout' = <<>>
    /\ scans' = <<>>
    /\ prev_run' = IF pc = "done"
                   THEN <<[stdout |-> stdout, scans |-> scans]>>
                   ELSE prev_run
    /\ UNCHANGED <<df, numerical_cols, col, Q1, Q3, IQR, lower_bound,
                   upper_bound, outliers, error>>
    /\ UNCHANGED wfvars

\* What one pass of the loop body prints: the column, len(outliers), and
\* outliers.head() when there is an outlier.
Printed(c, found) ==
    [col |-> c, count |-> Len(found),
     head |-> IF Len(found) > 0 THEN head(found) ELSE <<>>]

\* One pass of the loop body for col = numerical_cols[idx].
ScanColumn ==
    /\ pc = "loop"
    /\ idx <= Len(numerical_cols)
    /\ LET c    == numerical_cols[idx]
           s    == GetColumn(df, c)
           q1   == quantile(s.values, 1)
           q3   == quantile(s.values, 3)
           iqr  == FSub(q3, q1)
           lo   == FSub(q1, FMulOneAndHalf(iqr))
           hi   == FAdd(q3, FMulOneAndHalf(iqr))
           found == FilterOutliers(s.values, lo, hi)
       IN  IF s.dtype = "KeyError"
           THEN /\ error' = "KeyError"
                /\ pc' = "failed"
                /\ col' = c
                /\ UNCHANGED <<idx, Q1, Q3, IQR, lower_bound, upper_bound,
                               outliers, stdout, scans>>
           ELSE IF s.dtype \notin NumericDtypes
           THEN /\ error' = "TypeError"
                /\ pc' = "failed"
                /\ col' = c
                /\ UNCHANGED <<idx, Q1, Q3, IQR, lower_bound, upper_bound,
                               outliers, stdout, scans>>
           ELSE /\ col' = c
                /\ Q1' = q1
                /\ Q3' = q3
                /\ IQR' = iqr
                /\ lower_bound' = lo
                /\ upper_bound' = hi
                /\ outliers' = found
                /\ stdout' = Append(stdout, Printed(c, found))
                /\ scans' = Append(scans,
                       [col |-> c, Q1 |-> q1, Q3 |-> q3, IQR |-> iqr,
                        lower_bound |-> lo, upper_bound |-> hi,
                        outliers |-> found])
                /\ idx' = idx + 1
                /\ UNCHANGED <<pc, error>>
    /\ UNCHANGED <<df, numerical_cols, prev_run>>
    /\ UNCHANGED wfvars

\* The loop is exhausted: the cell completes.
EndOutlierCell ==
    /\ pc = "loop"
    /\ idx > Len(numerical_cols)
    /\ pc' = "done"
    /\ UNCHANGED <<df, numerical_cols, idx, col, Q1, Q3, IQR, lower_bound,
                   upper_bound, outliers, stdout, error, scans, prev_run>>
    /\ UNCHANGED wfvars

NotebookNext ==
    \/ SelectNumericalCols
    \/ BeginOutlierCell
    \/ ScanColumn
    \/ EndOutlierCell

\* ------------------------------------------------------------ the workflow
\* A step of a job: its name, its "if" status check ("success" when the step
\* states none), its continue-on-error flag, and whether it posts to the
\* notification channel (uses slackapi/slack-github-action).
Step(n, c, coe, notify) ==
    [name |-> n, cond |-> c, continue_on_error |-> coe, notify |-> notify]

DeploySolanaSteps == <<
    Step("Checkout code", "success", FALSE, FALSE),
    Step("Set up Rust", "success", FALSE, FALSE),
    Step("Cache Rust dependencies", "success", FALSE, FALSE),
    Step("Install Solana CLI", "success", FALSE, FALSE),
    Step("Set Solana network based on environment", "success", FALSE, FALSE),
    Step("Configure Solana CLI with private key", "success", FALSE, FALSE),
    Step("Build Solana smart contract", "success", FALSE, FALSE),
    Step("Deploy Solana smart contract", "success", FALSE, FALSE),
    Step("Capture deployment details", "success", TRUE, FALSE),
    Step("Upload Solana deployment artifact", "always", FALSE, FALSE),
    Step("Notify on Solana deployment success", "success", TRUE, TRUE),
    Step("Notify on Solana deployment failure", "failure", TRUE, TRUE) >>

DeployBackendSteps == <<
    Step("Checkout code", "success", FALSE, FALSE),
    Step("Set up Go", "success", FALSE, FALSE),
    Step("Cache Go dependencies", "success", FALSE, FALSE),
    Step("Configure AWS CLI", "success", FALSE, FALSE),
    Step("Build backend application", "success", FALSE, FALSE),
    Step("Deploy backend to AWS ECS (example)", "success", FALSE, FALSE),
    Step("Upload backend deployment artifact", "always", FALSE, FALSE),
    Step("Notify on backend deployment success", "success", TRUE, TRUE),
    Step("Notify on backend deployment failure", "failure", TRUE, TRUE) >>

DeployFrontendSteps == <<
    Step("Checkout code", "success", FALSE, FALSE),
    Step("Set up Node.js", "success", FALSE, FALSE),
    Step("Cache Node.js dependencies", "success", FALSE, FALSE),
    Step("Configure AWS CLI", "success", FALSE, FALSE),
    Step("Install frontend dependencies", "success", FALSE, FALSE),
    Step("Build frontend application", "success", FALSE, FALSE),
    Step("Deploy frontend to AWS S3 and CloudFront (example)", "success", FALSE, FALSE),
    Step("Upload frontend deployment artifact", "always", FALSE, FALSE),
    Step("Notify on frontend deployment success", "success", TRUE, TRUE),
    Step("Notify on frontend deployment failure", "failure", TRUE, TRUE) >>

DeploymentSummarySteps == <<
    Step("Checkout code", "success", FALSE, FALSE),
    Step("Check deployment results", "success", FALSE, FALSE),
    Step("Notify on overall deployment success", "success", TRUE, TRUE),
    Step("Notify on overall deployment failure", "failure", TRUE, TRUE) >>

JobNames == {"deploy-solana", "deploy-backend", "deploy-frontend", "deployment-summary"}

Steps(j) ==
    CASE j = "deploy-solana" -> DeploySolanaSteps
      [] j = "deploy-backend" -> DeployBackendSteps
      [] j = "deploy-frontend" -> DeployFrontendSteps
      [] j = "deployment-summary" -> DeploymentSummarySteps

\* A variant in which deploy-frontend states no needs.
NeedsWithoutFrontendChain(j) ==
    CASE j = "deploy-solana" -> {}
      [] j = "deploy-backend" -> {"deploy-solana"}
      [] j = "deploy-frontend" -> {}
      [] j = "deployment-summary" ->
            {"deploy-solana", "deploy-backend", "deploy-frontend"}

\* jobs.<job>.needs
Needs(j) ==
    CASE j = "deploy-solana" -> {}
      [] j = "deploy-backend" -> {"deploy-solana"}
      [] j = "deploy-frontend" -> {"deploy-backend"}
      [] j = "deployment-summary" ->
            {"deploy-solana", "deploy-backend", "deploy-frontend"}

\* on.workflow_dispatch.inputs.environment.options
EnvironmentOptions == {"dev", "staging", "prod"}

\* ${{ github.event.inputs.environment || 'dev' }}: the empty input of a push
\* falls back to 'dev'.
TargetEnvironment == IF inputs.environment = "" THEN "dev" ELSE inputs.environment

Completed == {"success", "failure", "skipped"}

\* A variant in which a failed step fails the job whatever its flag.
StepConclusionStrict(step, outcome) == outcome

\* The conclusion of a step that ran with the given outcome: a failure of a
\* step that states continue-on-error: true is concluded a success.
StepConclusion(step, outcome) ==
    IF outcome = "failure" /\ ~step.continue_on_error THEN "failure" ELSE "success"

\* The status check of a step's "if": success() holds while no earlier step of
\* the job concluded in failure, failure() once one did, always() always.
StepRuns(step, failed) ==
    CASE step.cond = "always" -> TRUE
      [] step.cond = "success" -> ~failed
      [] step.cond = "failure" -> failed

WorkflowIdle ==
    /\ event = "none"
    /\ inputs = [environment |-> "", force |-> FALSE]
    /\ jobs = [j \in JobNames |->
                 [status |-> "waiting", failed |-> FALSE, outcomes |-> <<>>]]

\* A push to main or release/**: the event carries no inputs.
TriggerPush ==
    /\ event = "none"
    /\ event' = "push"
    /\ UNCHANGED <<inputs, jobs>>
    /\ UNCHANGED nbvars

\* A manual run with its two inputs.
TriggerDispatch ==
    /\ event = "none"
    /\ event' = "workflow_dispatch"
    /\ \E e \in EnvironmentOptions, f \in BOOLEAN :
         inputs' = [environment |-> e, force |-> f]
    /\ UNCHANGED jobs
    /\ UNCHANGED nbvars

\* A job whose needed jobs all succeeded starts.
StartJob(j) ==
    /\ event # "none"
    /\ jobs[j].status = "waiting"
    /\ \A n \in Needs(j) : jobs[n].status = "success"
    /\ jobs' = [jobs EXCEPT ![j].status = "in_progress"]
    /\ UNCHANGED <<event, inputs>>
    /\ UNCHANGED nbvars

\* A job one of whose needed jobs failed or was skipped is skipped.
SkipJob(j) ==
    /\ event # "none"
    /\ jobs[j].status = "waiting"
    /\ \A n \in Needs(j) : jobs[n].status \in Completed
    /\ \E n \in Needs(j) : jobs[n].status # "success"
    /\ jobs' = [jobs EXCEPT ![j].status = "skipped"]
    /\ UNCHANGED <<event, inputs>>
    /\ UNCHANGED nbvars

\* The next step of a running job runs, and the external tool it invokes
\* succeeds or fails.
RunStep(j) ==
    /\ jobs[j].status = "in_progress"
    /\ Len(jobs[j].outcomes) < Len(Steps(j))
    /\ LET step == Steps(j)[Len(jobs[j].outcomes) + 1]
       IN  /\ StepRuns(step, jobs[j].failed)
           /\ \E outcome \in {"success", "failure"} :
                jobs' = [jobs EXCEPT
                           ![j].outcomes = Append(@, outcome),
                           ![j].failed = @ \/ StepConclusion(step, outcome) = "failure"]
    /\ UNCHANGED <<event, inputs>>
    /\ UNCHANGED nbvars

\* The next step of a running job is skipped: its status check is false.
SkipStep(j) ==
    /\ jobs[j].status = "in_progress"
    /\ Len(jobs[j].outcomes) < Len(Steps(j))
    /\ LET step == Steps(j)[Len(jobs[j].outcomes) + 1]
       IN  /\ ~StepRuns(step, jobs[j].failed)
           /\ jobs' = [jobs EXCEPT ![j].outcomes = Append(@, "skipped")]
    /\ UNCHANGED <<event, inputs>>
    /\ UNCHANGED nbvars

\* A job whose steps are all done concludes.
CompleteJob(j) ==
    /\ jobs[j].status = "in_progress"
    /\ Len(jobs[j].outcomes) = Len(Steps(j))
    /\ jobs' = [jobs EXCEPT
                  ![j].status = IF jobs[j].failed THEN "failure" ELSE "success"]
    /\ UNCHANGED <<event, inputs>>
    /\ UNCHANGED nbvars

WorkflowNext ==
    \/ TriggerPush
    \/ TriggerDispatch
    \/ \E j \in JobNames : StartJob(j)
    \/ \E j \in JobNames : SkipJob(j)
    \/ \E j \in JobNames : RunStep(j)
    \/ \E j \in JobNames : SkipStep(j)
    \/ \E j \in JobNames : CompleteJob(j)

\* ------------------------------------------------------------ specifications
vars == <<nbvars, wfvars>>

\* No dataset is loaded: the notebook is not run.
NotebookIdle ==
    /\ df = <<>>
    /\ numerical_cols = Unbound
    /\ pc = "idle"
    /\ idx = 0
    /\ col = Unbound
    /\ Q1 = Unbound /\ Q3 = Unbound /\ IQR = Unbound
    /\ lower_bound = Unbound /\ upper_bound = Unbound
    /\ outliers = <<>>
    /\ stdout = <<>>
    /\ error = "none"
    /\ scans = <<>>
    /\ prev_run = <<>>

\* The notebook, run on every table of the dataset bounds.
Init == NotebookInit /\ WorkflowIdle

Next == NotebookNext

Spec == Init /\ [][Next]_vars

\* One run of the deployment workflow.
InitDeploy == NotebookIdle /\ WorkflowIdle

NextDeploy == WorkflowNext

SpecDeploy == InitDeploy /\ [][NextDeploy]_vars

\* ------------------------------------------------------------ properties
\* What the properties below say of a scan, stated from the frame alone.

\* The loop body has run, in this run of the cell, for the column named col.
HasScanned == pc \in {"loop", "done"} /\ stdout # <<>> /\ error = "none"

\* The cells of the column the globals were computed from.
ScannedValues ==
    LET k == CHOOSE i \in 1..Len(df) : df[i].name = col IN df[k].values

NumRows == Len(df[1].values)

\* The rows of a column that hold a value.
Present(values) == {k \in 1..Len(values) : values[k] # NaN}

\* The order statistic of rank r (0 is the smallest) among the present values.
OrderStatistic(values, r) ==
    CHOOSE v \in {values[k][1] : k \in Present(values)} :
        /\ Cardinality({k \in Present(values) : values[k][1] < v}) <= r
        /\ r < Cardinality({k \in Present(values) : values[k][1] <= v})

\* The p-th percentile of the present values by linear interpolation between
\* the order statistics around rank (n - 1) * p / 100, in eighths (p is 25 or
\* 75, so the fraction is a multiple of 1/4); NaN when no value is present.
Percentile(values, p) ==
    LET n    == Cardinality(Present(values))
        rank == (n - 1) * p
        lo   == rank \div 100
        hi   == IF rank % 100 = 0 THEN lo ELSE lo + 1
        xlo  == OrderStatistic(values, lo)
        xhi  == OrderStatistic(values, hi)
    IN  IF n = 0 THEN NaN
        ELSE <<8 * xlo + ((8 * (rank % 100)) \div 100) * (xhi - xlo)>>

\* Row k of the scanned column lies strictly outside [lower_bound, upper_bound].
OutsideFence(k) ==
    /\ ScannedValues[k] # NaN
    /\ \/ lower_bound # NaN /\ 8 * ScannedValues[k][1] < lower_bound[1]
       \/ upper_bound # NaN /\ 8 * ScannedValues[k][1] > upper_bound[1]

\* Row k of the scanned column is among the outliers.
Returned(k) == \E m \in 1..Len(outliers) : outliers[m].label = k - 1

\* The count the last pass of the loop printed.
PrintedCount == stdout[Len(stdout)].count

\* C1: a row of the scanned column is returned as an outlier if and only if
\* its value is strictly below the lower bound or strictly above the upper
\* bound; a row inside the fence (bounds included) is never returned and a row
\* strictly outside is never omitted.
C1_OutlierIffOutsideFence ==
    HasScanned =>
        \A k \in 1..Len(ScannedValues) : Returned(k) <=> OutsideFence(k)

\* A scan of a fence that is not degenerate that returned one row and kept
\* another row, which lies inside the fence.
C1_Witness ==
    /\ HasScanned
    /\ lower_bound # NaN /\ upper_bound # NaN /\ lower_bound[1] < upper_bound[1]
    /\ \E k \in 1..Len(ScannedValues) : Returned(k) /\ OutsideFence(k)
    /\ \E k \in Present(ScannedValues) :
         /\ 8 * ScannedValues[k][1] >= lower_bound[1]
         /\ 8 * ScannedValues[k][1] <= upper_bound[1]
         /\ ~Returned(k)

\* C2: for a column with rows, Q1 and Q3 are the 25th and 75th percentiles by
\* linear interpolation between order statistics (NaN when every value is
\* missing, and then the values derived from them are NaN too), IQR = Q3 - Q1, lower bound = Q1 - 1.5 * IQR and
\* upper bound = Q3 + 1.5 * IQR; the column [1, 2, 2, 3, 3, 3, 4, 4, 100] gives
\* Q1 = 2, Q3 = 4, IQR = 2, lower = -1, upper = 7, outliers = [100], count = 1.
C2_QuartilesAndFence ==
    HasScanned /\ Len(ScannedValues) > 0 =>
        /\ Q1 = Percentile(ScannedValues, 25)
        /\ Q3 = Percentile(ScannedValues, 75)
        /\ IF Present(ScannedValues) = {}
           THEN IQR = NaN /\ lower_bound = NaN /\ upper_bound = NaN
           ELSE /\ IQR # NaN /\ lower_bound # NaN /\ upper_bound # NaN
                /\ IQR[1] = Q3[1] - Q1[1]
                /\ 2 * lower_bound[1] = 2 * Q1[1] - 3 * IQR[1]
                /\ 2 * upper_bound[1] = 2 * Q3[1] + 3 * IQR[1]
        /\ ScannedValues = ScenarioSkewed =>
             /\ Q1 = <<8 * 2>> /\ Q3 = <<8 * 4>> /\ IQR = <<8 * 2>>
             /\ lower_bound = <<8 * (-1)>> /\ upper_bound = <<8 * 7>>
             /\ outliers = <<[label |-> 8, value |-> <<100>>]>>
             /\ PrintedCount = 1

\* The documented column has been scanned.
C2_Witness == HasScanned /\ col = "x" /\ ScannedValues = ScenarioSkewed

\* C3 as stated: for every numeric column with at least one row, the fence
\* satisfies lower bound <= upper bound.
C3_FenceOrderedWhenRowsExist ==
    HasScanned /\ Len(ScannedValues) > 0 =>
        /\ lower_bound # NaN /\ upper_bound # NaN
        /\ lower_bound[1] <= upper_bound[1]

\* C3, amended: for every numeric column with at least one value that is not
\* missing, IQR >= 0 and lower bound <= upper bound.
C3_FenceOrdered ==
    HasScanned /\ Present(ScannedValues) # {} =>
        /\ IQR # NaN /\ IQR[1] >= 0
        /\ lower_bound # NaN /\ upper_bound # NaN
        /\ lower_bound[1] <= upper_bound[1]

\* A scanned column with a missing value and a fence that is not degenerate.
C3_Witness ==
    /\ HasScanned
    /\ Present(ScannedValues) # {}
    /\ \E k \in 1..Len(ScannedValues) : ScannedValues[k] = NaN
    /\ lower_bound[1] < upper_bound[1]

\* C4: for a column with at least one row in which every value is the same
\* number, IQR = 0, lower bound = upper bound = that number, and the scan
\* returns no outlier and prints the count 0; e.g. [5, 5, 5, 5].
C4_ConstantColumnNoOutliers ==
    HasScanned /\ Len(ScannedValues) > 0
      /\ (\A k \in 1..Len(ScannedValues) :
            ScannedValues[k] # NaN /\ ScannedValues[k] = ScannedValues[1]) =>
        /\ Q1 = <<8 * ScannedValues[1][1]>>
        /\ Q3 = Q1
        /\ IQR = <<0>>
        /\ lower_bound = Q1 /\ upper_bound = Q1
        /\ outliers = <<>>
        /\ PrintedCount = 0

\* The documented constant column has been scanned.
C4_Witness == HasScanned /\ col = "x" /\ ScannedValues = ScenarioConstant

\* C5: the outliers are a subsequence of the rows of the scanned column in
\* their original order, and the printed count is the length of that
\* subsequence, the number of rows outside the fence.
C5_OrderedSubsequence ==
    HasScanned =>
        /\ \A m \in 1..Len(outliers) :
             /\ outliers[m].label \in 0..(Len(ScannedValues) - 1)
             /\ outliers[m].value = ScannedValues[outliers[m].label + 1]
        /\ \A m, n \in 1..Len(outliers) :
             m < n => outliers[m].label < outliers[n].label
        /\ PrintedCount = Len(outliers)
        /\ PrintedCount =
             Cardinality({k \in 1..Len(ScannedValues) : OutsideFence(k)})

\* A scan that returned two rows that are not neighbours and kept the rows
\* between them.
C5_Witness ==
    /\ HasScanned
    /\ Len(outliers) = 2
    /\ outliers[2].label > outliers[1].label + 1
    /\ Len(ScannedValues) > 2

\* The column of df named c.
ColumnNamed(c) == df[CHOOSE i \in 1..Len(df) : df[i].name = c]

\* The names the loop has printed a result for, in this run of the cell.
PrintedColumns == {stdout[m].col : m \in 1..Len(stdout)}

C7_EmptyInputRaised ==
    pc \in {"done", "failed"} /\ NumRows = 0 =>
        error = "EmptyInput" /\ stdout = <<>>

\* C7, amended: the scan of a table without rows raises no error: the cell
\* completes; a column of such a table is skipped when it is not numeric and
\* otherwise scanned with undefined (NaN) quartiles and fence, the printed
\* count being 0 and the outliers empty.
C7_EmptyTableScansToNothing ==
    NumRows = 0 =>
        /\ error = "none"
        /\ pc # "failed"
        /\ \A m \in 1..Len(stdout) : stdout[m].count = 0 /\ stdout[m].head = <<>>
        /\ HasScanned =>
             /\ Q1 = NaN /\ Q3 = NaN /\ IQR = NaN
             /\ lower_bound = NaN /\ upper_bound = NaN
             /\ outliers = <<>>

\* The cell completed on a table without rows and printed the count 0 for a
\* numeric column.
C7_Witness ==
    /\ NumRows = 0
    /\ pc = "done"
    /\ stdout # <<>>
    /\ stdout[1].count = 0

\* The column with its missing entries removed.
WithoutMissing(values) == SelectSeq(values, LAMBDA c : c # NaN)

\* C8: for a numeric column with missing values, Q1 and Q3 are those of the
\* column with the missing entries removed, and a row whose value is missing
\* is never returned as an outlier nor counted.
C8_MissingExcluded ==
    HasScanned /\ (\E k \in 1..Len(ScannedValues) : ScannedValues[k] = NaN) =>
        /\ Q1 = Percentile(WithoutMissing(ScannedValues), 25)
        /\ Q3 = Percentile(WithoutMissing(ScannedValues), 75)
        /\ \A k \in 1..Len(ScannedValues) : ScannedValues[k] = NaN => ~Returned(k)
        /\ \A m \in 1..Len(outliers) : outliers[m].value # NaN
        /\ PrintedCount =
             Cardinality({k \in Present(ScannedValues) : OutsideFence(k)})

\* A scanned column with a missing value, defined quartiles and an outlier.
C8_Witness ==
    /\ HasScanned
    /\ \E k \in 1..Len(ScannedValues) : ScannedValues[k] = NaN
    /\ Q1 # NaN /\ Q3 # NaN
    /\ outliers # <<>>

\* The result recorded for a column is the result of scanning that column
\* alone: its quartiles are those of the column and its outliers are the rows
\* of the column outside the fence recorded with them.
ScanOfOwnColumn(r) ==
    LET values == ColumnNamed(r.col).values
    IN  /\ r.Q1 = Percentile(values, 25)
        /\ r.Q3 = Percentile(values, 75)
        /\ \A k \in 1..Len(values) :
             (\E m \in 1..Len(r.outliers) : r.outliers[m].label = k - 1)
               <=> /\ values[k] # NaN
                   /\ r.lower_bound # NaN /\ r.upper_bound # NaN
                   /\ \/ 8 * values[k][1] < r.lower_bound[1]
                      \/ 8 * values[k][1] > r.upper_bound[1]
        /\ \A m, n \in 1..Len(r.outliers) :
             r.outliers[m].label = r.outliers[n].label => m = n

\* A run of the cell that follows a completed run yields what that run
\* yielded, and every result is that of its own column.
C9_SameResults ==
    /\ pc = "done" /\ prev_run # <<>> =>
         prev_run[1].stdout = stdout /\ prev_run[1].scans = scans
    /\ pc \in {"loop", "done"} => \A m \in 1..Len(scans) : ScanOfOwnColumn(scans[m])

\* C9: the scan leaves the table unchanged, a second run on the same table
\* yields the same fences, counts and outliers as the first, and the result of
\* a column does not depend on the scan of another column.
C9_PureAndIdempotent == [](C9_SameResults) /\ [][df' = df]_vars

\* The cell completed a second time on a table with two numeric columns, each
\* with an outlier.
C9_Witness ==
    /\ pc = "done"
    /\ prev_run # <<>>
    /\ Len(scans) = 2
    /\ scans[1].outliers # <<>>
    /\ scans[2].outliers # <<>>

\* A step of job j that is no notification and does not continue on error
\* failed among the first n steps.
HardFailureWithin(j, n) ==
    \E k \in 1..n :
        /\ k <= Len(jobs[j].outcomes)
        /\ jobs[j].outcomes[k] = "failure"
        /\ ~Steps(j)[k].notify
        /\ ~Steps(j)[k].continue_on_error

HardFailure(j) == HardFailureWithin(j, Len(jobs[j].outcomes))

\* C10: notification is best-effort.  In every job the status, and with it the
\* conclusion, is decided by the steps that are no notifications; whether a
\* later step runs is decided by those steps too; and a job is skipped only
\* for a needed job that was skipped or failed in such a step.
C10_NotificationBestEffort ==
    \A j \in JobNames :
        /\ jobs[j].failed <=> HardFailure(j)
        /\ jobs[j].status = "success" => ~HardFailure(j)
        /\ jobs[j].status = "failure" => HardFailure(j)
        /\ \A k \in 1..Len(jobs[j].outcomes) :
             jobs[j].outcomes[k] = "skipped" <=>
               \/ Steps(j)[k].cond = "success" /\ HardFailureWithin(j, k - 1)
               \/ Steps(j)[k].cond = "failure" /\ ~HardFailureWithin(j, k - 1)
        /\ jobs[j].status = "skipped" =>
             \E n \in Needs(j) : jobs[n].status = "skipped" \/ HardFailure(n)

\* The success notification of deploy-solana failed, the job concluded in
\* success all the same, and deploy-backend, which needs it, is running.
C10_Witness ==
    /\ Len(jobs["deploy-solana"].outcomes) = 12
    /\ jobs["deploy-solana"].outcomes[11] = "failure"
    /\ jobs["deploy-solana"].outcomes[12] = "skipped"
    /\ jobs["deploy-solana"].status = "success"
    /\ jobs["deploy-backend"].status = "in_progress"

\* The three jobs that deploy a component, and the step of each that deploys.
DeployJobs == {"deploy-solana", "deploy-backend", "deploy-frontend"}

DeployStepNames ==
    {"Deploy Solana smart contract", "Deploy backend to AWS ECS (example)",
     "Deploy frontend to AWS S3 and CloudFront (example)"}

\* Step k of job j ran (it was not skipped).
Executed(j, k) ==
    k <= Len(jobs[j].outcomes) /\ jobs[j].outcomes[k] \in {"success", "failure"}

\* C11: in a manual run with force = true the deployment is forced even if
\* checks fail: no deploy job is skipped, and the deploying step of a job is
\* not skipped, for a step that failed before it.
C11_ForceDeploysDespiteFailedChecks ==
    event = "workflow_dispatch" /\ inputs.force =>
        \A j \in DeployJobs :
            /\ jobs[j].status # "skipped"
            /\ \A k \in 1..Len(jobs[j].outcomes) :
                 Steps(j)[k].name \in DeployStepNames =>
                     jobs[j].outcomes[k] # "skipped"

\* Job j has started: it is running or has concluded after running.
Started(j) == jobs[j].status \in {"in_progress", "success", "failure"}

\* C12: deploy-backend never starts before deploy-solana has succeeded,
\* deploy-frontend never before deploy-backend has succeeded,
\* deployment-summary never before all three have succeeded, and no two jobs
\* run at the same time.
C12_JobsStrictlyOrdered ==
    /\ Started("deploy-backend") => jobs["deploy-solana"].status = "success"
    /\ Started("deploy-frontend") =>
         /\ jobs["deploy-solana"].status = "success"
         /\ jobs["deploy-backend"].status = "success"
    /\ Started("deployment-summary") =>
         \A j \in DeployJobs : jobs[j].status = "success"
    /\ \A i, j \in JobNames :
         jobs[i].status = "in_progress" /\ jobs[j].status = "in_progress" => i = j

\* deployment-summary is running after the three deploy jobs succeeded.
C12_Witness ==
    /\ jobs["deployment-summary"].status = "in_progress"
    /\ Len(jobs["deployment-summary"].outcomes) > 0
    /\ \A j \in DeployJobs : jobs[j].status = "success"

\* Every job of the run has concluded.
RunCompleted == \A j \in JobNames : jobs[j].status \in Completed

\* C13: once a run in which a deploy job failed is over, deployment-summary
\* has executed its step "Notify on overall deployment failure"; and the step
\* "Notify on overall deployment success" executes only when the three deploy
\* jobs succeeded.
C13_SummaryNotifiesFailure ==
    /\ RunCompleted /\ (\E j \in DeployJobs : jobs[j].status = "failure") =>
         \E k \in 1..Len(DeploymentSummarySteps) :
           /\ DeploymentSummarySteps[k].name = "Notify on overall deployment failure"
           /\ Executed("deployment-summary", k)
    /\ \A k \in 1..Len(DeploymentSummarySteps) :
         DeploymentSummarySteps[k].name = "Notify on overall deployment success"
           /\ Executed("deployment-summary", k) =>
             \A j \in DeployJobs : jobs[j].status = "success"

====
